---------------------------- MODULE Spec2Model ----------------------------
(***************************************************************************)
(* Webhook ingestion of quality-agent: HMAC signature verification, the    *)
(* FastAPI receiver (app/webhook_receiver.py), the Lambda receiver with its *)
(* DynamoDB idempotency table (src/lambda/webhook_receiver/handler.py),     *)
(* the audit log of daily JSON Lines files (app/webhook_audit.py), and the *)
(* queue-driven path behind the Lambda receiver: the SQS trigger and the   *)
(* Fargate processor (src/fargate/processor.py).                           *)
(*                                                                         *)
(* Strings whose characters matter (signature headers, git refs) are       *)
(* tuples of one-character strings; opaque strings (secrets, delivery ids, *)
(* event types) are TLA+ strings.                                          *)
(***************************************************************************)
EXTENDS Integers, Sequences, FiniteSets, TLC

VARIABLES
    receiver,       \* which receiver this deployment runs: "fastapi" or "lambda"
    \* --- a direct call of verify_github_signature (pure function) ---
    vcall,          \* its arguments
    vresult,        \* what the call did: returned value / raised, HMAC computed or not
    \* --- FastAPI receiver ---
    secret,         \* settings.github_webhook_secret
    request,        \* the request handle_github_webhook handled last
    response,       \* the HTTP response it produced
    background_tasks, \* run_pr_analysis tasks enqueued and not yet run
    analysis_log,   \* what the background task that finished last logged
    analysis,       \* the background task the event loop is running, if any
    audit_log,      \* entries appended to the webhook audit log
    \* --- Lambda receiver ---
    inv,            \* per invocation: program counter, event, locals, response
    table,          \* DynamoDB idempotency table: delivery ids that have an item
    s3_objects,     \* S3 bucket: delivery ids whose event object is stored
    queue,          \* SQS processing queue: messages sent, per delivery id
    \* --- WebhookAuditor (app/webhook_audit.py) and its directory ---
    constructed,    \* WebhookAuditor.__init__ has run
    enabled,        \* self.enabled (settings.enable_webhook_audit)
    retention_days, \* self.retention_days
    today,          \* datetime.utcnow().date(), as a day number
    dir_exists,     \* self.audit_dir exists
    files,          \* the files of audit_dir, by name
    op,             \* the auditor call made last: what it met and returned, the
                    \* directory before it, and whether it repeats a cleanup
    day_calls,      \* the log_webhook_request calls made today, in call order
    day_clean,      \* no log_webhook_request call of today met a failure
    ncalls,         \* log_webhook_request calls made so far
    \* --- concurrent callers of log_webhook_request ---
    writers,        \* per caller: where it is in the call, its arguments, the
                    \* file size it found at open, and what it met
    \* --- queue-driven path: SQS trigger Lambda and Fargate processor ---
    nrecords,       \* SQS records the trigger handler has been given so far
    trigger,        \* the record it handled last and what it did with it
    ecs_tasks       \* the Fargate tasks launched, each with its MESSAGE_BODY
                    \* and how far processor.py has got

vars == << receiver, vcall, vresult, secret, request, response, background_tasks,
           analysis_log, analysis, audit_log, inv, table, s3_objects, queue,
           constructed, enabled, retention_days, today, dir_exists, files, op,
           day_calls, day_clean, ncalls, writers, nrecords, trigger, ecs_tasks >>

verifyVars == << vcall, vresult >>
appVars    == << request, response, background_tasks, analysis_log, analysis, audit_log >>
lambdaVars == << inv, table, s3_objects, queue >>
auditVars  == << constructed, enabled, retention_days, today, dir_exists, files, op,
                 day_calls, day_clean, ncalls >>
writerVars == << writers >>
processorVars == << nrecords, trigger, ecs_tasks >>

None == "None"

-----------------------------------------------------------------------------
(* Bounds of the model *)

\* background tasks that may be pending at once
MaxTasks == 2
\* concurrent / successive Lambda invocations
NumInvocations == 2

-----------------------------------------------------------------------------
(* Character strings *)

Range(s) == { s[i] : i \in 1..Len(s) }

\* str.startswith
StartsWith(s, p) == Len(s) >= Len(p) /\ SubSeq(s, 1, Len(p)) = p

\* s[n:]
DropPrefix(s, n) == SubSeq(s, n + 1, Len(s))

\* c * n
Rep(c, n) == [ i \in 1..n |-> c ]

HexDigits == { "0", "1", "2", "3", "4", "5", "6", "7", "8", "9",
               "a", "b", "c", "d", "e", "f" }

\* a character outside ASCII (e-acute), as a header decoded from latin-1 may hold
NonAscii == "U+00E9"

IsAscii(s) == NonAscii \notin Range(s)

\* the literal "sha256="
Prefix == << "s", "h", "a", "2", "5", "6", "=" >>
PrefixLen == 7
\* length of a SHA-256 hexdigest
DigestLen == 64

\* ^sha256=[0-9a-f]{64}$
WellFormedHeader(h) ==
    /\ Len(h) = PrefixLen + DigestLen
    /\ StartsWith(h, Prefix)
    /\ Range(DropPrefix(h, PrefixLen)) \subseteq HexDigits

-----------------------------------------------------------------------------
(* Request bodies.  A body is the raw byte string of the request; the model  *)
(* names each byte string by what json parsing makes of it.                  *)

\* Field(min_length=40, max_length=40) of the SHA fields
ShaLen == 40
GoodSha  == Rep("a", ShaLen)
ShortSha == Rep("a", ShaLen - 1)
\* 40 characters, none of them hexadecimal
NonHexSha == Rep("z", ShaLen)

RefMain    == << "r","e","f","s","/","h","e","a","d","s","/","m","a","i","n" >>
RefFeature == << "r","e","f","s","/","h","e","a","d","s","/","f","/","x" >>
RefTag     == << "r","e","f","s","/","t","a","g","s","/","v","1" >>
RefBare    == << "m","a","i","n" >>

\* the Literal[...] of PullRequestWebhookPayload.action
PRActions == { "opened", "closed", "reopened", "synchronize", "edited", "assigned",
               "unassigned", "labeled", "unlabeled", "review_requested",
               "review_request_removed", "ready_for_review", "converted_to_draft" }

\* a pull_request event body
PRBody(action, number, head_sha) ==
    [ json |-> TRUE, shape |-> "pull_request", action |-> action, number |-> number,
      head_sha |-> head_sha, base_sha |-> GoodSha ]

\* a push event body
PushBody(ref, ncommits, after) ==
    [ json |-> TRUE, shape |-> "push", ref |-> ref, before |-> GoodSha, after |-> after,
      commits |-> Rep(GoodSha, ncommits) ]

\* bytes that are not JSON
NotJson == [ json |-> FALSE, shape |-> "garbage" ]

\* one pull_request body per action of the schema, in this order
ActionList == << "opened", "synchronize", "closed", "reopened", "edited", "assigned",
                 "unassigned", "labeled", "unlabeled", "review_requested",
                 "review_request_removed", "ready_for_review", "converted_to_draft" >>

PRBodyList == [ i \in 1..Len(ActionList) |-> PRBody(ActionList[i], 42, GoodSha) ]

BodyList ==
    PRBodyList \o
    << PRBody("opened", 7, GoodSha),
       PRBody("deleted", 42, GoodSha),
       PRBody("opened", 42, ShortSha),
       PushBody(RefMain, 2, GoodSha),
       PushBody(RefFeature, 1, GoodSha),
       PushBody(RefTag, 0, GoodSha),
       PushBody(RefBare, 1, GoodSha),
       PushBody(RefMain, 1, ShortSha),
       NotJson,
       PRBody("opened", 42, NonHexSha),
       PushBody(RefMain, 1, NonHexSha) >>

Bodies == Range(BodyList)

SecretList == << "secret_A", "secret_B" >>
Secrets == Range(SecretList)

IndexOf(x, seq) == CHOOSE i \in 1..Len(seq) : seq[i] = x

-----------------------------------------------------------------------------
(* HMAC-SHA256 *)

HexList == << "0", "1", "2", "3", "4", "5", "6", "7", "8", "9",
              "a", "b", "c", "d", "e", "f" >>

\* hmac.new(key, msg, sha256).hexdigest(): 64 lower-case hex characters.  The
\* hash is idealised: deterministic and collision-free on Secrets x Bodies.
hexdigest(key, msg) ==
    << HexList[IndexOf(key, SecretList) + 1],
       HexList[(IndexOf(msg, BodyList) \div 16) + 1],
       HexList[(IndexOf(msg, BodyList) % 16) + 1] >>
        \o Rep("0", DigestLen - 3)

\* the header GitHub sends for body msg under secret key
sign(msg, key) == Prefix \o hexdigest(key, msg)

\* hmac.compare_digest on two str: raises TypeError unless both are ASCII
compare_digest(a, b) ==
    IF IsAscii(a) /\ IsAscii(b)
    THEN [ exc |-> None, value |-> (a = b) ]
    ELSE [ exc |-> "TypeError", value |-> FALSE ]

\* a verifier that signs with a fixed secret instead of the configured one
verify_github_signature_fixed_key(payload_body, signature_header, key) ==
    IF ~StartsWith(signature_header, Prefix)
    THEN [ exc |-> None, value |-> FALSE, hmac |-> FALSE ]
    ELSE LET cmp == compare_digest(DropPrefix(signature_header, PrefixLen),
                                   hexdigest(SecretList[1], payload_body))
         IN  [ exc |-> cmp.exc, value |-> cmp.value, hmac |-> TRUE ]

verify_github_signature(payload_body, signature_header, key) ==
    IF ~StartsWith(signature_header, Prefix)
    THEN [ exc |-> None, value |-> FALSE, hmac |-> FALSE ]
    ELSE LET received_signature == DropPrefix(signature_header, PrefixLen)
             expected_signature == hexdigest(key, payload_body)
             cmp == compare_digest(received_signature, expected_signature)
         IN  [ exc |-> cmp.exc, value |-> cmp.value, hmac |-> TRUE ]

-----------------------------------------------------------------------------
(* Signature headers a client may send *)

Upper(c) == CASE c = "a" -> "A" [] c = "b" -> "B" [] c = "c" -> "C"
              [] c = "d" -> "D" [] c = "e" -> "E" [] c = "f" -> "F"
              [] OTHER -> c

Malformed(b, s) ==
    LET d == hexdigest(s, b)
    IN  { << >>,                                   \* empty header
          d,                                       \* digest without the prefix
          Prefix,                                  \* prefix alone
          Prefix \o SubSeq(d, 1, DigestLen - 1),   \* one character short
          Prefix \o d \o << "0" >>,                \* one character long
          Prefix \o [ i \in 1..DigestLen |-> Upper(d[i]) ],  \* upper-case hex
          Prefix \o << "z" >> \o SubSeq(d, 2, DigestLen),    \* a non-hex character
          Prefix \o << NonAscii >> \o SubSeq(d, 2, DigestLen), \* a non-ASCII character
          << "S", "H", "A", "2", "5", "6", "=" >> \o d }     \* wrong case of the prefix

SignedHeaders == { sign(b, s) : b \in Bodies, s \in Secrets }

Headers == SignedHeaders \cup UNION { Malformed(b, s) : b \in { BodyList[1] }, s \in Secrets }

-----------------------------------------------------------------------------
(* Pydantic models of models/github.py *)

\* PullRequestWebhookPayload.model_validate succeeds
ValidPullRequestPayload(doc) ==
    /\ doc.json
    /\ doc.shape = "pull_request"
    /\ doc.action \in PRActions
    /\ Len(doc.head_sha) = ShaLen
    /\ Len(doc.base_sha) = ShaLen

\* PushWebhookPayload.model_validate succeeds
ValidPushPayload(doc) ==
    /\ doc.json
    /\ doc.shape = "push"
    /\ Len(doc.before) = ShaLen
    /\ Len(doc.after) = ShaLen
    /\ \A i \in 1..Len(doc.commits) : Len(doc.commits[i]) = ShaLen

\* an actionable test that also takes reopened pull requests
is_actionable_with_reopened(payload) ==
    payload.action \in { "opened", "synchronize", "reopened" }

\* PullRequestWebhookPayload.is_actionable
is_actionable(payload) == payload.action \in { "opened", "synchronize" }

\* positions of "/" in s
SlashAt(s) == { i \in 1..Len(s) : s[i] = "/" }

Max(S) == CHOOSE x \in S : \A y \in S : y <= x

\* PushWebhookPayload.branch_name: ref.split("/")[-1]
branch_name(payload) ==
    IF SlashAt(payload.ref) = {} THEN payload.ref
    ELSE DropPrefix(payload.ref, Max(SlashAt(payload.ref)))

RefsHeads == << "r","e","f","s","/","h","e","a","d","s","/" >>

\* a branch test that takes every ref under refs/
is_branch_push_any_ref(payload) == StartsWith(payload.ref, SubSeq(RefsHeads, 1, 5))

\* PushWebhookPayload.is_branch_push
is_branch_push(payload) == StartsWith(payload.ref, RefsHeads)

\* PushWebhookPayload.commit_count
commit_count(payload) == Len(payload.commits)

-----------------------------------------------------------------------------
(* FastAPI receiver: app/webhook_receiver.py *)

\* a handler's outcome: the HTTP response and the background tasks it added
Outcome(resp, tasks) == [ response |-> resp, enqueue |-> tasks ]

HTTPException(code, detail) == [ code |-> code, detail |-> detail ]

\* an exception nobody catches reaches main.py's global_exception_handler
ServerError == [ code |-> 500, detail |-> "Internal server error" ]

\* a handler that awaits the analysis itself before it answers
process_pull_request_webhook_inline(payload, delivery_id) ==
    IF ~is_actionable(payload)
    THEN Outcome([ code |-> 200, status |-> "ignored",
                   message |-> << "Action '", payload.action, "' does not require analysis" >>,
                   pr_number |-> payload.number ],
                 << >>)
    ELSE Outcome([ code |-> 200, status |-> "processing",
                   message |-> "Pull request analysis started",
                   pr_number |-> payload.number,
                   action |-> payload.action,
                   delivery_id |-> delivery_id ],
                 << >>)

process_pull_request_webhook(payload, delivery_id) ==
    IF ~is_actionable(payload)
    THEN Outcome([ code |-> 200, status |-> "ignored",
                   message |-> << "Action '", payload.action, "' does not require analysis" >>,
                   pr_number |-> payload.number ],
                 << >>)
    ELSE Outcome([ code |-> 200, status |-> "processing",
                   message |-> "Pull request analysis started",
                   pr_number |-> payload.number,
                   action |-> payload.action,
                   delivery_id |-> delivery_id ],
                 << [ fn |-> "run_pr_analysis", payload |-> payload,
                      delivery_id |-> delivery_id ] >>)

process_push_webhook(payload, delivery_id) ==
    IF ~is_branch_push(payload)
    THEN Outcome([ code |-> 200, status |-> "ignored",
                   message |-> << "Ref '", payload.ref, "' is not a branch" >> ],
                 << >>)
    ELSE Outcome([ code |-> 200, status |-> "accepted",
                   message |-> "Push received",
                   branch |-> branch_name(payload),
                   commits |-> commit_count(payload) ],
                 << >>)

EventNotHandled(x_github_event) ==
    Outcome([ code |-> 200, status |-> "ignored",
              message |-> << "Event type '", x_github_event, "' is not handled" >> ],
            << >>)

\* a router that checks the event shape and the action but not the SHA fields
route_partly_validated(req) ==
    IF ~req.body.json
    THEN Outcome(HTTPException(400, "Invalid JSON payload"), << >>)
    ELSE IF req.event = "pull_request"
    THEN IF ~(req.body.shape = "pull_request" /\ req.body.action \in PRActions)
         THEN Outcome(HTTPException(400, "Invalid payload structure"), << >>)
         ELSE process_pull_request_webhook(req.body, req.delivery)
    ELSE IF req.event = "push"
    THEN IF req.body.shape # "push"
         THEN Outcome(HTTPException(400, "Invalid payload structure"), << >>)
         ELSE process_push_webhook(req.body, req.delivery)
    ELSE EventNotHandled(req.event)

\* handle_github_webhook after the signature check: parse, validate, dispatch
route(req) ==
    IF ~req.body.json
    THEN Outcome(HTTPException(400, "Invalid JSON payload"), << >>)
    ELSE IF req.event = "pull_request"
    THEN IF ~ValidPullRequestPayload(req.body)
         THEN Outcome(HTTPException(400, "Invalid payload structure"), << >>)
         ELSE process_pull_request_webhook(req.body, req.delivery)
    ELSE IF req.event = "push"
    THEN IF ~ValidPushPayload(req.body)
         THEN Outcome(HTTPException(400, "Invalid payload structure"), << >>)
         ELSE process_push_webhook(req.body, req.delivery)
    ELSE EventNotHandled(req.event)

\* a receiver that dispatches first and checks the signature afterwards
handle_github_webhook_verify_last(req, key) ==
    IF req.event \notin { "pull_request", "push" }
    THEN EventNotHandled(req.event)
    ELSE LET is_valid == verify_github_signature(req.body, req.signature, key)
         IN  IF is_valid.exc # None THEN Outcome(ServerError, << >>)
             ELSE IF ~is_valid.value
             THEN Outcome(HTTPException(401, "Invalid webhook signature"), route(req).enqueue)
             ELSE route(req)

handle_github_webhook(req, key) ==
    IF req.event \notin { "pull_request", "push" }
    THEN EventNotHandled(req.event)
    ELSE LET is_valid == verify_github_signature(req.body, req.signature, key)
         IN  IF is_valid.exc # None THEN Outcome(ServerError, << >>)
             ELSE IF ~is_valid.value
             THEN Outcome(HTTPException(401, "Invalid webhook signature"), << >>)
             ELSE route(req)

DeliveryIds == { "d1", "d2" }

Req(e, d, h, b) == [ event |-> e, delivery |-> d, signature |-> h, body |-> b ]

\* headers tried against body b: signed with either secret, signed over another
\* body, without the prefix, with a non-hex and with a non-ASCII character
HeadersFor(b) ==
    LET d == hexdigest(SecretList[1], b)
    IN  { sign(b, s) : s \in Secrets }
            \cup { sign(BodyList[2], SecretList[1]),
                   d,
                   Prefix \o << "z" >> \o SubSeq(d, 2, DigestLen),
                   Prefix \o << NonAscii >> \o SubSeq(d, 2, DigestLen) }

PushBodies == { b \in Bodies : b.shape = "push" }
PRBodies == { b \in Bodies : b.shape = "pull_request" }

\* The requests sent to POST /webhook/github:
\*  every event type with every kind of signature header, over a JSON and a
\*  non-JSON body; every pull_request and push body, correctly signed, under
\*  its own and under the other event type.
Requests ==
    { Req(e, "d1", h, b) : e \in { "pull_request", "push", "issues" },
                           h \in HeadersFor(BodyList[1]),
                           b \in { BodyList[1], NotJson } }
      \cup { Req(e, "d1", sign(NotJson, SecretList[1]), NotJson) :
                e \in { "pull_request", "push", "issues" } }
      \cup { Req("pull_request", "d1", sign(b, SecretList[1]), b) : b \in PRBodies \cup PushBodies }
      \cup { Req("pull_request", "d2", sign(BodyList[1], SecretList[1]), BodyList[1]) }
      \cup { Req("push", "d1", sign(b, SecretList[1]), b) : b \in PushBodies \cup { BodyList[1] } }

\* no background task is running
NoAnalysis == [ state |-> "idle", delivery_id |-> None, pipeline |-> None,
                calls |-> 0, exc |-> None ]

\* a receiver that answers a delivery id it is already working on as a duplicate
HandleGithubWebhook_deduplicating ==
    /\ receiver = "fastapi"
    /\ analysis.state # "running"
    /\ Len(background_tasks) < MaxTasks
    /\ \E req \in Requests :
            LET out == handle_github_webhook(req, secret)
                known == \/ \E k \in 1..Len(background_tasks) :
                                background_tasks[k].delivery_id = req.delivery
                         \/ analysis.delivery_id = req.delivery
            IN  /\ request' = req
                /\ response' = IF known /\ out.enqueue # << >>
                               THEN [ code |-> 200, status |-> "duplicate" ]
                               ELSE out.response
                /\ background_tasks' = IF known THEN background_tasks
                                       ELSE background_tasks \o out.enqueue
    /\ UNCHANGED << receiver, secret, analysis_log, analysis, audit_log,
                    verifyVars, lambdaVars, auditVars, writerVars, processorVars >>

\* POST /webhook/github: the whole of handle_github_webhook.  The handler
\* runs on the event loop of the process, so it runs only while no coroutine
\* holds the loop: run_pr_analysis is a coroutine that calls the pipeline
\* without awaiting, and holds the loop until the pipeline returns.
HandleGithubWebhook ==
    /\ receiver = "fastapi"
    /\ analysis.state # "running"
    /\ Len(background_tasks) < MaxTasks
    /\ \E req \in Requests :
            LET out == handle_github_webhook(req, secret)
            IN  /\ request' = req
                /\ response' = out.response
                /\ background_tasks' = background_tasks \o out.enqueue
    /\ UNCHANGED << receiver, secret, analysis_log, analysis, audit_log,
                    verifyVars, lambdaVars, auditVars, writerVars, processorVars >>

\* what analyze_pull_request may do when it returns
AnalysisOutcomes == { "report", "failed_report", "raises" }

\* what the agent pipeline may do: return one of these, or never return
PipelineBehaviours == AnalysisOutcomes \cup { "hangs" }

\* a run_pr_analysis without the try/except around the pipeline
run_pr_analysis_unguarded(outcome) ==
    IF outcome = "raises" THEN [ exc |-> "Exception", log |-> None ]
    ELSE [ exc |-> None, log |-> "analysis_completed" ]

\* run_pr_analysis once analyze_pull_request is back: the exception that
\* leaves the task (None: it returns) and the event it logs
run_pr_analysis(outcome) ==
    IF outcome = "raises" THEN [ exc |-> None, log |-> "analysis_failed" ]
    ELSE [ exc |-> None, log |-> "analysis_completed" ]

\* the response is sent; the event loop calls the oldest background task,
\* which logs analysis_starting and calls analyze_pull_request
StartPrAnalysis ==
    /\ receiver = "fastapi"
    /\ analysis.state # "running"
    /\ background_tasks # << >>
    /\ \E p \in PipelineBehaviours :
         analysis' = [ state |-> "running", delivery_id |-> Head(background_tasks).delivery_id,
                       pipeline |-> p, calls |-> 1, exc |-> None ]
    /\ background_tasks' = Tail(background_tasks)
    /\ UNCHANGED << receiver, secret, request, response, analysis_log, audit_log,
                    verifyVars, lambdaVars, auditVars, writerVars, processorVars >>

\* analyze_pull_request is back and run_pr_analysis logs and ends
RunPrAnalysis ==
    /\ receiver = "fastapi"
    /\ analysis.state = "running"
    /\ analysis.pipeline # "hangs"
    /\ LET r == run_pr_analysis(analysis.pipeline)
       IN  /\ analysis_log' = r.log
           /\ analysis' = [ analysis EXCEPT !.state = "ended", !.exc = r.exc ]
    /\ UNCHANGED << receiver, secret, request, response, background_tasks, audit_log,
                    verifyVars, lambdaVars, auditVars, writerVars, processorVars >>

\* no call of verify_github_signature made yet
Pending == [ exc |-> "pending", value |-> FALSE, hmac |-> FALSE ]

InitVerifyIdle ==
    /\ vcall = [ body |-> NotJson, header |-> << >>, key |-> SecretList[1] ]
    /\ vresult = Pending
\* before the first request
NoRequest == Req("none", "none", << >>, NotJson)
NoResponse == [ code |-> 0 ]

InitAppIdle ==
    /\ request = NoRequest
    /\ response = NoResponse
    /\ background_tasks = << >>
    /\ analysis_log = None
    /\ analysis = NoAnalysis
    /\ audit_log = << >>

-----------------------------------------------------------------------------
(* Lambda receiver: src/lambda/webhook_receiver/handler.py *)

Invocations == 1..NumInvocations

\* get_webhook_secret(): the parameter store holds the configured secret
get_webhook_secret == secret

\* a verification that looks at the prefix only
verify_signature_prefix_only(payload, signature) ==
    [ exc |-> None,
      value |-> (signature # << >> /\ StartsWith(signature, Prefix)),
      hmac |-> FALSE ]

\* verify_signature(payload, signature)
verify_signature(payload, signature) ==
    IF signature = << >> \/ ~StartsWith(signature, Prefix)
    THEN [ exc |-> None, value |-> FALSE, hmac |-> FALSE ]
    ELSE LET expected == hexdigest(get_webhook_secret, payload)
             provided == DropPrefix(signature, PrefixLen)
             cmp == compare_digest(expected, provided)
         IN  [ exc |-> cmp.exc, value |-> cmp.value, hmac |-> TRUE ]

\* the Lambda events (Function URL requests) of the model: correctly signed
\* deliveries d1 and d2, a correctly signed body that is not JSON, signatures
\* that do not verify, and a request without the X-GitHub-Event header
LambdaEvents ==
    { Req("pull_request", d, sign(BodyList[1], SecretList[1]), BodyList[1]) : d \in DeliveryIds }
      \cup { Req("pull_request", "d1", sign(NotJson, SecretList[1]), NotJson),
             Req("pull_request", "d1", sign(BodyList[1], SecretList[2]), BodyList[1]),
             Req("pull_request", "d1", hexdigest(SecretList[1], BodyList[1]), BodyList[1]),
             Req("pull_request", "d1", << >>, BodyList[1]),
             Req("pull_request", "d1",
                 Prefix \o << NonAscii >> \o SubSeq(hexdigest(SecretList[1], BodyList[1]), 2, DigestLen),
                 BodyList[1]),
             Req("", "d1", sign(BodyList[1], SecretList[1]), BodyList[1]) }

NoLambdaResponse == [ statusCode |-> 0, status |-> "none" ]

\* an invocation that has not received its event
Idle == [ pc |-> "idle", event |-> NoRequest, get_item |-> "none", stored |-> FALSE,
          sent |-> FALSE, put_item |-> "none", resp |-> NoLambdaResponse, error |-> None ]

\* the invocation ends with an exception nobody caught
Crash(state, exc) == [ state EXCEPT !.pc = "crashed", !.error = exc ]

LambdaResponse(code, st) == [ statusCode |-> code, status |-> st ]

\* what a DynamoDB call can do besides succeeding: answer with an error
\* (ClientError), or fail below the API (botocore's connection and timeout
\* errors, which are not ClientError)
DynamoFailures == { "ClientError", "BotoCoreError" }

\* lambda_handler, up to the first remote call: headers, body, signature
Receive(i) ==
    /\ receiver = "lambda"
    /\ inv[i].pc = "idle"
    /\ \E ev \in LambdaEvents :
         LET is_valid == verify_signature(ev.body, ev.signature)
             got == [ inv[i] EXCEPT !.event = ev ]
         IN  inv' = [ inv EXCEPT ![i] =
                 IF ev.event = "" \/ ev.delivery = ""
                 THEN [ got EXCEPT !.pc = "done",
                            !.resp = LambdaResponse(400, "Missing required GitHub headers") ]
                 ELSE IF is_valid.exc # None
                 THEN Crash(got, is_valid.exc)
                 ELSE IF ~is_valid.value
                 THEN [ got EXCEPT !.pc = "done",
                            !.resp = LambdaResponse(401, "Invalid signature") ]
                 ELSE [ got EXCEPT !.pc = "check" ] ]
    /\ UNCHANGED << receiver, secret, table, s3_objects, queue, verifyVars, appVars, auditVars, writerVars, processorVars >>

\* what table.get_item may do
GetItemOutcomes(delivery_id) ==
    { IF delivery_id \in table THEN "item" ELSE "no_item" } \cup DynamoFailures

\* a check that never reports a duplicate
check_idempotency_never(outcome) ==
    IF outcome = "BotoCoreError" THEN [ exc |-> outcome, value |-> FALSE ]
    ELSE [ exc |-> None, value |-> FALSE ]

\* check_idempotency: True, False, or the exception it lets through
check_idempotency(outcome) ==
    CASE outcome = "item" -> [ exc |-> None, value |-> TRUE ]
      [] outcome = "no_item" -> [ exc |-> None, value |-> FALSE ]
      [] outcome = "ClientError" -> [ exc |-> None, value |-> FALSE ]
      [] OTHER -> [ exc |-> outcome, value |-> FALSE ]

\* lambda_handler: check_idempotency (one get_item), then json.loads
CheckIdempotency(i) ==
    /\ receiver = "lambda"
    /\ inv[i].pc = "check"
    /\ \E outcome \in GetItemOutcomes(inv[i].event.delivery) :
         LET dup == check_idempotency(outcome)
             got == [ inv[i] EXCEPT !.get_item = outcome ]
         IN  inv' = [ inv EXCEPT ![i] =
                 IF dup.exc # None
                 THEN Crash(got, dup.exc)
                 ELSE IF dup.value
                 THEN [ got EXCEPT !.pc = "done", !.resp = LambdaResponse(200, "duplicate") ]
                 ELSE IF ~got.event.body.json
                 THEN [ got EXCEPT !.pc = "done",
                            !.resp = LambdaResponse(400, "Invalid JSON payload") ]
                 ELSE [ got EXCEPT !.pc = "store" ] ]
    /\ UNCHANGED << receiver, secret, table, s3_objects, queue, verifyVars, appVars, auditVars, writerVars, processorVars >>

\* a handler that records the delivery together with the S3 write
StoreEventToS3_recording(i) ==
    /\ receiver = "lambda"
    /\ inv[i].pc = "store"
    /\ \/ /\ s3_objects' = s3_objects \cup { inv[i].event.delivery }
          /\ table' = table \cup { inv[i].event.delivery }
          /\ inv' = [ inv EXCEPT ![i].pc = "send", ![i].stored = TRUE ]
       \/ /\ inv' = [ inv EXCEPT ![i] = Crash(@, "S3Error") ]
          /\ UNCHANGED << s3_objects, table >>
    /\ UNCHANGED << receiver, secret, queue, verifyVars, appVars, auditVars, writerVars, processorVars >>

\* store_event_to_s3: one put_object; an S3 error is not caught
StoreEventToS3(i) ==
    /\ receiver = "lambda"
    /\ inv[i].pc = "store"
    /\ \/ /\ s3_objects' = s3_objects \cup { inv[i].event.delivery }
          /\ inv' = [ inv EXCEPT ![i].pc = "send", ![i].stored = TRUE ]
       \/ /\ inv' = [ inv EXCEPT ![i] = Crash(@, "S3Error") ]
          /\ UNCHANGED s3_objects
    /\ UNCHANGED << receiver, secret, table, queue, verifyVars, appVars, auditVars, writerVars, processorVars >>

\* send_to_queue: one send_message; an SQS error is not caught
SendToQueue(i) ==
    /\ receiver = "lambda"
    /\ inv[i].pc = "send"
    /\ \/ /\ queue' = [ queue EXCEPT ![inv[i].event.delivery] = @ + 1 ]
          /\ inv' = [ inv EXCEPT ![i].pc = "record", ![i].sent = TRUE ]
       \/ /\ inv' = [ inv EXCEPT ![i] = Crash(@, "SQSError") ]
          /\ UNCHANGED queue
    /\ UNCHANGED << receiver, secret, table, s3_objects, verifyVars, appVars, auditVars, writerVars, processorVars >>

\* what table.put_item may do
PutItemOutcomes == { "ok" } \cup DynamoFailures

\* record_delivery: None, or the exception it lets through
record_delivery(outcome) ==
    IF outcome \in { "ok", "ClientError" } THEN [ exc |-> None ] ELSE [ exc |-> outcome ]

\* lambda_handler: record_delivery (one put_item), then the 200 response
RecordDelivery(i) ==
    /\ receiver = "lambda"
    /\ inv[i].pc = "record"
    /\ \E outcome \in PutItemOutcomes :
         /\ table' = IF outcome = "ok" THEN table \cup { inv[i].event.delivery } ELSE table
         /\ inv' = [ inv EXCEPT ![i] =
                IF record_delivery(outcome).exc # None
                THEN Crash([ @ EXCEPT !.put_item = outcome ], outcome)
                ELSE [ @ EXCEPT !.put_item = outcome, !.pc = "done",
                                !.resp = LambdaResponse(200, "accepted") ] ]
    /\ UNCHANGED << receiver, secret, s3_objects, queue, verifyVars, appVars, auditVars, writerVars, processorVars >>

\* DynamoDB purges an item whose ttl has passed
TtlExpire ==
    /\ receiver = "lambda"
    /\ \E d \in table : table' = table \ { d }
    /\ UNCHANGED << receiver, secret, inv, s3_objects, queue, verifyVars, appVars, auditVars, writerVars, processorVars >>

LambdaStep(i) ==
    \/ Receive(i)
    \/ CheckIdempotency(i)
    \/ StoreEventToS3(i)
    \/ SendToQueue(i)
    \/ RecordDelivery(i)

InitLambdaIdle ==
    /\ inv = [ i \in Invocations |-> Idle ]
    /\ table = {}
    /\ s3_objects = {}
    /\ queue = [ d \in DeliveryIds |-> 0 ]

-----------------------------------------------------------------------------
(* WebhookAuditor: app/webhook_audit.py.  The audit directory holds files   *)
(* named webhooks-<stem>.jsonl; a file is its lines, whether its last line  *)
(* lacks the newline (a write that stopped midway), and whether unlink on   *)
(* it fails with OSError.                                                   *)

\* total number of log_webhook_request calls in a run
MaxLogCalls == 2
\* the last day the clock reaches
MaxDay == 4

\* days of which the directory may hold a file when the auditor is constructed
OldDays == { 0, 1, 2 }

\* Python's None and {} where a dict is expected
NoneDict == [ py_none |-> TRUE ]
EmptyDict == [ py_empty |-> TRUE ]

\* f"webhooks-{day.isoformat()}.jsonl"
LogFileName(day) == [ stem |-> "date", day |-> day ]
\* a file the glob webhooks-*.jsonl matches whose stem is no date: webhooks-backup.jsonl
OtherFileName == [ stem |-> "text", day |-> 0 ]

\* datetime.fromisoformat(log_file.stem.replace("webhooks-", "")).date()
fromisoformat(name) ==
    IF name.stem = "date" THEN [ exc |-> None, date |-> name.day ]
    ELSE [ exc |-> "ValueError", date |-> 0 ]

\* json.dumps(audit_entry) + "\n": one line of text holding the entry
json_dumps(entry) == [ kind |-> "json", doc |-> entry ]
\* what remains of a line when the write stops before the newline
TornLine == [ kind |-> "torn", doc |-> EmptyDict ]
\* an empty line
BlankLine == [ kind |-> "blank", doc |-> EmptyDict ]

\* json.loads(line)
json_loads(line) ==
    IF line.kind = "json" THEN [ exc |-> None, value |-> line.doc ]
    ELSE [ exc |-> "JSONDecodeError", value |-> EmptyDict ]

\* a file open("a") has just created
EmptyFile == [ lines |-> << >>, torn |-> FALSE, locked |-> FALSE ]

\* f.write(text + "\n") on a file opened for appending: after a torn last line
\* the text continues that line, which stays malformed and gets its newline
write_line(f, line) ==
    IF f.torn THEN [ f EXCEPT !.torn = FALSE ]
    ELSE [ f EXCEPT !.lines = Append(@, line) ]

\* a write that fails after part of the text went out
write_torn(f) ==
    IF f.torn THEN f
    ELSE [ f EXCEPT !.lines = Append(@, TornLine), !.torn = TRUE ]

\* the directory with file name set to f
WithFile(fs, name, f) ==
    [ n \in DOMAIN fs \cup { name } |-> IF n = name THEN f ELSE fs[n] ]

\* the file as open("a") finds or creates it
OpenAppend(fs, name) == IF name \in DOMAIN fs THEN fs[name] ELSE EmptyFile

\* WebhookAuditor.__init__: does the directory exist afterwards
WebhookAuditor(is_enabled, exists) == IF is_enabled THEN TRUE ELSE exists

\* _get_log_file
get_log_file(now) == LogFileName(now)

\* what the body of log_webhook_request's try block may meet
LogOutcomes == { "ok", "OSError_open", "TypeError_dumps", "OSError_write" }

\* the entry log_webhook_request builds
audit_entry(now, call) ==
    [ timestamp |-> now,
      delivery_id |-> call.delivery_id,
      event_type |-> call.event_type,
      headers |-> call.headers,
      payload |-> call.payload,
      metadata |-> IF call.metadata = NoneDict THEN EmptyDict ELSE call.metadata ]

\* a log_webhook_request that opens the day's file with "w"
log_webhook_request_truncating(fs, is_enabled, now, call, outcome) ==
    IF ~is_enabled THEN [ exc |-> None, files |-> fs ]
    ELSE LET log_file == get_log_file(now)
             f == EmptyFile
         IN  CASE outcome = "ok" ->
                    [ exc |-> None,
                      files |-> WithFile(fs, log_file, write_line(f, json_dumps(audit_entry(now, call)))) ]
               [] outcome = "OSError_open" -> [ exc |-> None, files |-> fs ]
               [] outcome = "TypeError_dumps" ->
                    [ exc |-> None, files |-> WithFile(fs, log_file, f) ]
               [] OTHER -> [ exc |-> None, files |-> WithFile(fs, log_file, write_torn(f)) ]

\* a log_webhook_request that has no try/except around the write
log_webhook_request_unguarded(fs, is_enabled, now, call, outcome) ==
    IF ~is_enabled THEN [ exc |-> None, files |-> fs ]
    ELSE LET log_file == get_log_file(now)
             f == OpenAppend(fs, log_file)
         IN  CASE outcome = "ok" ->
                    [ exc |-> None,
                      files |-> WithFile(fs, log_file, write_line(f, json_dumps(audit_entry(now, call)))) ]
               [] outcome = "OSError_open" -> [ exc |-> "OSError", files |-> fs ]
               [] outcome = "TypeError_dumps" ->
                    [ exc |-> "TypeError", files |-> WithFile(fs, log_file, f) ]
               [] OTHER -> [ exc |-> "OSError", files |-> WithFile(fs, log_file, write_torn(f)) ]

\* log_webhook_request: the exception that leaves it (None: it returns) and
\* the directory afterwards
log_webhook_request(fs, is_enabled, now, call, outcome) ==
    IF ~is_enabled THEN [ exc |-> None, files |-> fs ]
    ELSE LET log_file == get_log_file(now)
             f == OpenAppend(fs, log_file)
         IN  CASE outcome = "ok" ->
                    [ exc |-> None,
                      files |-> WithFile(fs, log_file, write_line(f, json_dumps(audit_entry(now, call)))) ]
               [] outcome = "OSError_open" -> [ exc |-> None, files |-> fs ]
               [] outcome = "TypeError_dumps" ->
                    [ exc |-> None, files |-> WithFile(fs, log_file, f) ]
               [] OTHER -> [ exc |-> None, files |-> WithFile(fs, log_file, write_torn(f)) ]

\* the directory without the files named in S
WithoutFiles(fs, S) == [ n \in DOMAIN fs \ S |-> fs[n] ]

\* the files cleanup_old_logs unlinks: the stem parses to a date before the
\* cutoff and unlink does not raise OSError
Unlinked(fs, cutoff_date) ==
    { n \in DOMAIN fs : /\ fromisoformat(n).exc = None
                        /\ fromisoformat(n).date < cutoff_date
                        /\ ~fs[n].locked }

\* a cleanup that also takes the files of the cutoff day
cleanup_old_logs_inclusive(fs, is_enabled, now, retention) ==
    IF ~is_enabled THEN [ count |-> 0, files |-> fs ]
    ELSE LET removed == Unlinked(fs, now - retention + 1)
         IN  [ count |-> Cardinality(removed), files |-> WithoutFiles(fs, removed) ]

\* a cleanup that counts a file before it unlinks it
cleanup_old_logs_counting_attempts(fs, is_enabled, now, retention) ==
    IF ~is_enabled THEN [ count |-> 0, files |-> fs ]
    ELSE LET removed == Unlinked(fs, now - retention)
             tried == { n \in DOMAIN fs : /\ fromisoformat(n).exc = None
                                          /\ fromisoformat(n).date < now - retention }
         IN  [ count |-> Cardinality(tried), files |-> WithoutFiles(fs, removed) ]

\* a cleanup that does not look at self.enabled
cleanup_old_logs_when_disabled(fs, is_enabled, now, retention) ==
    LET removed == Unlinked(fs, now - retention)
    IN  [ count |-> Cardinality(removed), files |-> WithoutFiles(fs, removed) ]

\* cleanup_old_logs: the count it returns and the directory afterwards
cleanup_old_logs(fs, is_enabled, now, retention) ==
    IF ~is_enabled THEN [ count |-> 0, files |-> fs ]
    ELSE LET cutoff_date == now - retention
             removed == Unlinked(fs, cutoff_date)
         IN  [ count |-> Cardinality(removed), files |-> WithoutFiles(fs, removed) ]

\* the loop of read_audit_logs: blank lines are passed over; the first line
\* json.loads rejects raises out of the loop, and the entries read so far remain
RECURSIVE ReadLines(_)
ReadLines(lines) ==
    IF lines = << >> THEN << >>
    ELSE IF Head(lines).kind = "blank" THEN ReadLines(Tail(lines))
    ELSE IF json_loads(Head(lines)).exc # None THEN << >>
    ELSE << json_loads(Head(lines)).value >> \o ReadLines(Tail(lines))

\* target_date=None; a given date d is << d >>
NoDate == << >>

\* read_audit_logs(target_date)
read_audit_logs(fs, is_enabled, now, target_date) ==
    LET log_date == IF target_date = NoDate THEN now ELSE target_date[1]
        log_file == LogFileName(log_date)
    IN  IF ~is_enabled THEN << >>
        ELSE IF log_file \notin DOMAIN fs THEN << >>
        ELSE ReadLines(fs[log_file].lines)

\* sorted(glob("webhooks-*.jsonl"), reverse=True): letters sort after digits,
\* so a text stem comes first, then the dates, newest first
RECURSIVE SortedNewestFirst(_)
SortedNewestFirst(names) ==
    IF names = {} THEN << >>
    ELSE LET first == CHOOSE n \in names :
                 \A m \in names : \/ n.stem = "text"
                                  \/ (m.stem = "date" /\ m.day <= n.day)
         IN  << first >> \o SortedNewestFirst(names \ { first })

\* get_all_log_files
get_all_log_files(fs, is_enabled, exists) ==
    IF ~is_enabled \/ ~exists THEN << >> ELSE SortedNewestFirst(DOMAIN fs)

\* the calls of log_webhook_request the model makes
AuditCalls ==
    { [ delivery_id |-> "d1", event_type |-> "pull_request",
        headers |-> [ event |-> "pull_request", delivery |-> "d1" ],
        payload |-> BodyList[1], metadata |-> [ pr_number |-> 42 ] ],
      [ delivery_id |-> "d2", event_type |-> "push",
        headers |-> [ event |-> "push", delivery |-> "d2" ],
        payload |-> PushBody(RefMain, 2, GoodSha), metadata |-> NoneDict ] }

\* a call with what it meets: each call succeeding, and the pull_request call
\* meeting each failure
LogAttempts ==
    { [ call |-> c, outcome |-> "ok" ] : c \in AuditCalls }
      \cup { [ call |-> c, outcome |-> o ] :
                c \in { x \in AuditCalls : x.event_type = "pull_request" },
                o \in LogOutcomes \ { "ok" } }

\* no auditor call made yet
NoOp == [ name |-> "none", date |-> 0, met |-> None, entries |-> << >>, count |-> 0,
          exc |-> None, listing |-> << >>, before |-> << >>,
          repeat |-> FALSE, first_count |-> 0 ]

\* WebhookAuditor(...)
Construct ==
    /\ receiver = "audit"
    /\ ~constructed
    /\ constructed' = TRUE
    /\ dir_exists' = WebhookAuditor(enabled, dir_exists)
    /\ op' = [ NoOp EXCEPT !.name = "__init__", !.before = files ]
    /\ UNCHANGED << receiver, secret, enabled, retention_days, today, files,
                    day_calls, day_clean, ncalls, verifyVars, appVars, lambdaVars, writerVars, processorVars >>

\* auditor.log_webhook_request(delivery_id, event_type, headers, payload, metadata)
LogWebhookRequest ==
    /\ receiver = "audit"
    /\ constructed
    /\ ncalls < MaxLogCalls
    /\ \E attempt \in LogAttempts :
         LET call == attempt.call
             outcome == attempt.outcome
             r == log_webhook_request(files, enabled, today, call, outcome)
         IN  /\ files' = r.files
             /\ op' = [ NoOp EXCEPT !.name = "log_webhook_request", !.exc = r.exc,
                                    !.met = outcome, !.before = files ]
             /\ day_calls' = Append(day_calls, call)
             /\ day_clean' = (day_clean /\ outcome = "ok")
    /\ ncalls' = ncalls + 1
    /\ UNCHANGED << receiver, secret, constructed, enabled, retention_days, today,
                    dir_exists, verifyVars, appVars, lambdaVars, writerVars, processorVars >>

\* auditor.read_audit_logs(target_date)
ReadAuditLogs ==
    /\ receiver = "audit"
    /\ constructed
    /\ \E target_date \in { NoDate, << Max(OldDays) >> } :
         op' = [ NoOp EXCEPT !.name = "read_audit_logs", !.before = files,
                             !.date = IF target_date = NoDate THEN today ELSE target_date[1],
                             !.entries = read_audit_logs(files, enabled, today, target_date) ]
    /\ UNCHANGED << receiver, secret, constructed, enabled, retention_days, today,
                    dir_exists, files, day_calls, day_clean, ncalls,
                    verifyVars, appVars, lambdaVars, writerVars, processorVars >>

\* auditor.cleanup_old_logs()
CleanupOldLogs ==
    /\ receiver = "audit"
    /\ constructed
    /\ LET r == cleanup_old_logs(files, enabled, today, retention_days)
       IN  /\ files' = r.files
           /\ op' = [ NoOp EXCEPT !.name = "cleanup_old_logs", !.count = r.count,
                                  !.before = files,
                                  !.repeat = (op.name = "cleanup_old_logs"),
                                  !.first_count = IF op.name = "cleanup_old_logs"
                                                  THEN op.count ELSE 0 ]
    /\ UNCHANGED << receiver, secret, constructed, enabled, retention_days, today,
                    dir_exists, day_calls, day_clean, ncalls,
                    verifyVars, appVars, lambdaVars, writerVars, processorVars >>

\* auditor.get_all_log_files()
GetAllLogFiles ==
    /\ receiver = "audit"
    /\ constructed
    /\ op' = [ NoOp EXCEPT !.name = "get_all_log_files", !.before = files,
                           !.listing = get_all_log_files(files, enabled, dir_exists) ]
    /\ UNCHANGED << receiver, secret, constructed, enabled, retention_days, today,
                    dir_exists, files, day_calls, day_clean, ncalls,
                    verifyVars, appVars, lambdaVars, writerVars, processorVars >>

\* midnight UTC
DayPasses ==
    /\ receiver = "audit"
    /\ today < MaxDay
    /\ today' = today + 1
    /\ day_calls' = << >>
    /\ day_clean' = TRUE
    /\ op' = [ NoOp EXCEPT !.name = "day_passes", !.before = files ]
    /\ UNCHANGED << receiver, secret, constructed, enabled, retention_days,
                    dir_exists, files, ncalls, verifyVars, appVars, lambdaVars, writerVars, processorVars >>

\* a file an earlier run of the service left: an entry, a line a crash left
\* malformed, an empty line and another entry
OldFile(day, is_locked) ==
    LET c == CHOOSE x \in AuditCalls : x.event_type = "push"
    IN  [ lines |-> << json_dumps(audit_entry(day, c)), TornLine, BlankLine,
                       json_dumps(audit_entry(day, c)) >>,
          torn |-> FALSE, locked |-> is_locked ]

\* the directory as the auditor may find it: missing; or holding a file for
\* each old day and one whose name is no date, the oldest perhaps undeletable
Directories ==
    { [ exists |-> FALSE, files |-> WithoutFiles(<< >>, {}) ] }
      \cup { [ exists |-> TRUE,
               files |-> [ n \in { LogFileName(d) : d \in OldDays } \cup { OtherFileName } |->
                             OldFile(n.day, is_locked /\ n = LogFileName(0)) ] ] :
             is_locked \in BOOLEAN }

\* Field(default=30, ge=1, le=365) of webhook_audit_retention_days
RetentionChoices == { 1, 2 }

\* the auditor in a deployment that does not use it
InitAuditIdle ==
    /\ constructed = FALSE
    /\ enabled = TRUE
    /\ retention_days = 1
    /\ today = 3
    /\ dir_exists = FALSE
    /\ files = WithoutFiles(<< >>, {})
    /\ op = NoOp
    /\ day_calls = << >>
    /\ day_clean = TRUE
    /\ ncalls = 0

-----------------------------------------------------------------------------
(* log_webhook_request called by several threads or processes at once.  A   *)
(* call opens the day's file with open("a"), which creates it and sets      *)
(* O_APPEND; f.write leaves the line in the buffer of the call's own file   *)
(* object; leaving the with block flushes it with one write(2), which the   *)
(* kernel places at the end the file has at that moment.                    *)

\* callers of log_webhook_request that run at the same time
NumWriters == 2
Writers == 1..NumWriters

\* a caller that has not entered log_webhook_request
IdleWriter == [ pc |-> "idle", call |-> NoneDict, seen |-> 0, met |-> None ]

\* a caller whose open("w") empties the file
WriterOpen_truncating(w) ==
    /\ receiver = "writers"
    /\ writers[w].pc = "idle"
    /\ \E c \in AuditCalls :
         \/ /\ files' = WithFile(files, get_log_file(today), EmptyFile)
            /\ writers' = [ writers EXCEPT ![w] =
                   [ pc |-> "opened", call |-> c, seen |-> 0, met |-> None ] ]
         \/ /\ writers' = [ writers EXCEPT ![w] =
                   [ pc |-> "done", call |-> c, seen |-> 0, met |-> "OSError_open" ] ]
            /\ UNCHANGED files
    /\ UNCHANGED << receiver, secret, constructed, enabled, retention_days, today,
                    dir_exists, op, day_calls, day_clean, ncalls,
                    verifyVars, appVars, lambdaVars, processorVars >>

\* log_webhook_request up to log_file.open("a"): the entry is built, the file
\* is found or created, or open raises OSError and the except clause ends the call
WriterOpen(w) ==
    /\ receiver = "writers"
    /\ writers[w].pc = "idle"
    /\ \E c \in AuditCalls :
         LET log_file == get_log_file(today)
             f == OpenAppend(files, log_file)
         IN  \/ /\ files' = WithFile(files, log_file, f)
                /\ writers' = [ writers EXCEPT ![w] =
                       [ pc |-> "opened", call |-> c, seen |-> Len(f.lines), met |-> None ] ]
             \/ /\ writers' = [ writers EXCEPT ![w] =
                       [ pc |-> "done", call |-> c, seen |-> 0, met |-> "OSError_open" ] ]
                /\ UNCHANGED files
    /\ UNCHANGED << receiver, secret, constructed, enabled, retention_days, today,
                    dir_exists, op, day_calls, day_clean, ncalls,
                    verifyVars, appVars, lambdaVars, processorVars >>

\* f.write(json.dumps(audit_entry) + "\n") and the end of the with block: the
\* one write(2) of the line, appended whole, or failing after part of it
WriterWrite(w) ==
    /\ receiver = "writers"
    /\ writers[w].pc = "opened"
    /\ LET log_file == get_log_file(today)
           line == json_dumps(audit_entry(today, writers[w].call))
       IN  \/ /\ files' = WithFile(files, log_file, write_line(files[log_file], line))
              /\ writers' = [ writers EXCEPT ![w].pc = "done", ![w].met = "ok" ]
           \/ /\ files' = WithFile(files, log_file, write_torn(files[log_file]))
              /\ writers' = [ writers EXCEPT ![w].pc = "done", ![w].met = "OSError_write" ]
    /\ UNCHANGED << receiver, secret, constructed, enabled, retention_days, today,
                    dir_exists, op, day_calls, day_clean, ncalls,
                    verifyVars, appVars, lambdaVars, processorVars >>

\* nobody is calling log_webhook_request
InitWritersIdle == writers = [ w \in Writers |-> IdleWriter ]

-----------------------------------------------------------------------------
(* Queue-driven path: the SQS trigger Lambda                                *)
(* (terraform/modules/crewai-processor/sqs_trigger_code/index.py) and the   *)
(* Fargate processor (src/fargate/processor.py)                             *)

\* SQS records given to the trigger handler in a run
MaxRecords == 3

\* payload.get("action") of the Lambda receiver's send_to_queue
PayloadAction(payload) ==
    IF payload.shape = "pull_request" THEN payload.action ELSE None

\* the message send_to_queue builds; s3_key names the object store_event_to_s3
\* wrote for the delivery
QueueMessage(delivery_id, event_type, payload) ==
    [ delivery_id |-> delivery_id,
      event_type |-> event_type,
      s3_key |-> delivery_id,
      action |-> IF event_type \in { "pull_request", "workflow_run" }
                 THEN PayloadAction(payload) ELSE None ]

\* the deliveries the Lambda receiver has accepted: pull requests opened,
\* synchronized, closed and reopened, one opened with a SHA the model rejects,
\* one whose body is a push body, a push and an issues event
AcceptedDeliveries ==
    { [ delivery_id |-> "d1", event_type |-> "pull_request", payload |-> PRBodyList[1] ],
      [ delivery_id |-> "d2", event_type |-> "pull_request", payload |-> PRBodyList[2] ],
      [ delivery_id |-> "d3", event_type |-> "pull_request", payload |-> PRBodyList[3] ],
      [ delivery_id |-> "d4", event_type |-> "pull_request", payload |-> PRBodyList[4] ],
      [ delivery_id |-> "d5", event_type |-> "pull_request",
        payload |-> PRBody("opened", 42, ShortSha) ],
      [ delivery_id |-> "d6", event_type |-> "pull_request",
        payload |-> PushBody(RefMain, 1, GoodSha) ],
      [ delivery_id |-> "d7", event_type |-> "push", payload |-> PushBody(RefMain, 2, GoodSha) ],
      [ delivery_id |-> "d8", event_type |-> "issues", payload |-> PRBodyList[1] ] }

\* the events bucket: event_data["payload"] of the object under an s3_key
EventsBucket(s3_key) ==
    (CHOOSE d \in AcceptedDeliveries : d.delivery_id = s3_key).payload

\* the messages in the processing queue
QueueMessages ==
    { QueueMessage(d.delivery_id, d.event_type, d.payload) : d \in AcceptedDeliveries }

\* what ecs_client.run_task may do: start a task, answer with failures and no
\* task, or raise
RunTaskOutcomes == { "task", "failures", "Exception" }

\* the trigger has handled no record
NoRecord == [ message |-> NoneDict, did |-> "none" ]

\* a Fargate task as run_task starts it: MESSAGE_BODY is the record's body
NewTask(message) ==
    [ pc |-> "main", MESSAGE_BODY |-> message, s3_read |-> FALSE, analyze_called |-> FALSE,
      log |-> None, exc |-> None ]

\* a trigger handler that launches a task for every event type
handler_for_any_event(message, outcome) ==
    IF outcome = "task" THEN [ did |-> "launched", tasks |-> << NewTask(message) >> ]
    ELSE IF outcome = "failures" THEN [ did |-> "launch_failed", tasks |-> << >> ]
    ELSE [ did |-> "raised", tasks |-> << >> ]

\* handler, for one record: what it does and the tasks it launches
handler(message, outcome) ==
    IF message.event_type # "pull_request" THEN [ did |-> "skipped", tasks |-> << >> ]
    ELSE IF outcome = "task" THEN [ did |-> "launched", tasks |-> << NewTask(message) >> ]
    ELSE IF outcome = "failures" THEN [ did |-> "launch_failed", tasks |-> << >> ]
    ELSE [ did |-> "raised", tasks |-> << >> ]

\* the SQS trigger handler is given a record
SqsTriggerHandler ==
    /\ receiver = "queue"
    /\ nrecords < MaxRecords
    /\ \E message \in QueueMessages, outcome \in RunTaskOutcomes :
         LET r == handler(message, outcome)
         IN  /\ trigger' = [ message |-> message, did |-> r.did ]
             /\ ecs_tasks' = ecs_tasks \o r.tasks
    /\ nrecords' = nrecords + 1
    /\ UNCHANGED << receiver, secret, verifyVars, appVars, lambdaVars, auditVars,
                    writerVars >>

\* a processor that analyses every pull_request action
process_pull_request_any_action(message) == "get_event"

\* process_pull_request up to the action test: what comes next
process_pull_request(message) ==
    IF message.action \notin { "opened", "synchronize" } THEN "skipping_action"
    ELSE "get_event"

\* main() of processor.py with the start of process_pull_request
ProcessorMain(t) ==
    /\ receiver = "queue"
    /\ ecs_tasks[t].pc = "main"
    /\ LET message == ecs_tasks[t].MESSAGE_BODY
       IN  ecs_tasks' = [ ecs_tasks EXCEPT ![t] =
               IF message.event_type # "pull_request"
               THEN [ @ EXCEPT !.pc = "complete", !.log = "skipping_event" ]
               ELSE IF process_pull_request(message) = "skipping_action"
               THEN [ @ EXCEPT !.pc = "complete", !.log = "skipping_action" ]
               ELSE [ @ EXCEPT !.pc = "get_event" ] ]
    /\ UNCHANGED << receiver, secret, nrecords, trigger, verifyVars, appVars, lambdaVars,
                    auditVars, writerVars >>

\* get_event_from_s3, then PullRequestWebhookPayload(**payload): the object
\* is read, or get_object raises; a payload the model rejects ends the task
GetEventFromS3(t) ==
    /\ receiver = "queue"
    /\ ecs_tasks[t].pc = "get_event"
    /\ LET payload == EventsBucket(ecs_tasks[t].MESSAGE_BODY.s3_key)
       IN  \/ ecs_tasks' = [ ecs_tasks EXCEPT ![t] =
                  IF ValidPullRequestPayload(payload)
                  THEN [ @ EXCEPT !.pc = "analyze", !.s3_read = TRUE ]
                  ELSE [ @ EXCEPT !.pc = "complete", !.s3_read = TRUE,
                                  !.log = "payload_parse_error" ] ]
           \/ ecs_tasks' = [ ecs_tasks EXCEPT ![t] =
                  [ @ EXCEPT !.pc = "crashed", !.exc = "ClientError" ] ]
    /\ UNCHANGED << receiver, secret, nrecords, trigger, verifyVars, appVars, lambdaVars,
                    auditVars, writerVars >>

\* QualityAnalysisCrew().analyze(webhook_payload): the class defines
\* analyze_pull_request and no analyze, so the call raises AttributeError,
\* which process_pull_request logs as analysis_error and raises again
Analyze(t) ==
    /\ receiver = "queue"
    /\ ecs_tasks[t].pc = "analyze"
    /\ ecs_tasks' = [ ecs_tasks EXCEPT ![t] =
           [ @ EXCEPT !.pc = "crashed", !.analyze_called = TRUE,
                      !.log = "analysis_error", !.exc = "AttributeError" ] ]
    /\ UNCHANGED << receiver, secret, nrecords, trigger, verifyVars, appVars, lambdaVars,
                    auditVars, writerVars >>

\* no record handled, no task launched
InitProcessorIdle ==
    /\ nrecords = 0
    /\ trigger = NoRecord
    /\ ecs_tasks = << >>

-----------------------------------------------------------------------------
(* The deployment runs one of the two receivers; neither calls the auditor *)

Init ==
    /\ receiver \in { "fastapi", "lambda" }
    /\ secret = SecretList[1]
    /\ InitAppIdle
    /\ InitVerifyIdle
    /\ InitLambdaIdle
    /\ InitAuditIdle
    /\ InitWritersIdle
    /\ InitProcessorIdle

Next ==
    \/ HandleGithubWebhook
    \/ StartPrAnalysis
    \/ RunPrAnalysis
    \/ \E i \in Invocations : LambdaStep(i)
    \/ TtlExpire

Spec == Init /\ [][Next]_vars

\* the scheduling of the FastAPI process: the event loop calls a waiting
\* background task once the loop is free, and run_pr_analysis goes on once
\* analyze_pull_request has returned
SpecLive == Spec /\ WF_vars(StartPrAnalysis) /\ WF_vars(RunPrAnalysis)

-----
(* verify_github_signature applied to arbitrary inputs *)

InitVerify ==
    /\ vcall \in [ body : Bodies, header : Headers, key : Secrets ]
    /\ vresult = Pending
    /\ receiver = "none"
    /\ secret = SecretList[1]
    /\ InitAppIdle
    /\ InitLambdaIdle
    /\ InitAuditIdle
    /\ InitWritersIdle
    /\ InitProcessorIdle

VerifyCall ==
    /\ vresult = Pending
    /\ vresult' = verify_github_signature(vcall.body, vcall.header, vcall.key)
    /\ UNCHANGED << receiver, secret, vcall, appVars, lambdaVars, auditVars, writerVars, processorVars >>

NextVerify == VerifyCall

SpecVerify == InitVerify /\ [][NextVerify]_vars

-----------------------------------------------------------------------------
(* The auditor called directly, on any day, enabled or not *)

InitAudit ==
    /\ receiver = "audit"
    /\ secret = SecretList[1]
    /\ InitAppIdle
    /\ InitVerifyIdle
    /\ InitLambdaIdle
    /\ constructed = FALSE
    /\ enabled \in BOOLEAN
    /\ retention_days \in RetentionChoices
    /\ today = 3
    /\ \E dir \in Directories : dir_exists = dir.exists /\ files = dir.files
    /\ op = NoOp
    /\ day_calls = << >>
    /\ day_clean = TRUE
    /\ ncalls = 0
    /\ InitWritersIdle
    /\ InitProcessorIdle

NextAudit ==
    \/ Construct
    \/ LogWebhookRequest
    \/ ReadAuditLogs
    \/ CleanupOldLogs
    \/ GetAllLogFiles
    \/ DayPasses

SpecAudit == InitAudit /\ [][NextAudit]_vars

-----------------------------------------------------------------------------
(* An enabled auditor whose log_webhook_request is called concurrently *)

InitWriters ==
    /\ receiver = "writers"
    /\ secret = SecretList[1]
    /\ InitAppIdle
    /\ InitVerifyIdle
    /\ InitLambdaIdle
    /\ InitProcessorIdle
    /\ constructed = TRUE
    /\ enabled = TRUE
    /\ retention_days \in RetentionChoices
    /\ today = 3
    /\ dir_exists = TRUE
    /\ files \in { dir.files : dir \in Directories }
    /\ op = NoOp
    /\ day_calls = << >>
    /\ day_clean = TRUE
    /\ ncalls = 0
    /\ InitWritersIdle

NextWriters == \E w \in Writers : WriterOpen(w) \/ WriterWrite(w)

SpecWriters == InitWriters /\ [][NextWriters]_vars

-----------------------------------------------------------------------------
(* The queue-driven path on its own *)

InitQueue ==
    /\ receiver = "queue"
    /\ secret = SecretList[1]
    /\ InitAppIdle
    /\ InitVerifyIdle
    /\ InitLambdaIdle
    /\ InitAuditIdle
    /\ InitWritersIdle
    /\ InitProcessorIdle

NextQueue ==
    \/ SqsTriggerHandler
    \/ \E t \in 1..Len(ecs_tasks) : ProcessorMain(t) \/ GetEventFromS3(t) \/ Analyze(t)

SpecQueue == InitQueue /\ [][NextQueue]_vars

-----------------------------------------------------------------------------
(* Properties *)

\* the header is the GitHub signature of the raw body under the configured secret
SignatureVerifies(req) == req.signature = sign(req.body, secret)

\* C1: verify_github_signature(body, header, secret) returns true when header is
\* "sha256=" followed by the hex HMAC-SHA256 of body keyed by secret, and false
\* when the signature was made with another secret or over another body.
C1_SignatureAcceptedIffSameBodyAndSecret ==
    vresult # Pending =>
        \A b \in Bodies, s \in Secrets :
            vcall.header = sign(b, s) =>
                /\ vresult.exc = None
                /\ vresult.value = (b = vcall.body /\ s = vcall.key)

C1_Witness ==
    /\ vresult # Pending
    /\ vcall.header = sign(vcall.body, vcall.key)
    /\ vresult.value

\* C2: verify_github_signature returns false for every header that does not match
\* ^sha256=[0-9a-f]{64}$, and does so without computing an HMAC.
C2_MalformedHeaderRejectedWithoutHmac ==
    (vresult # Pending /\ ~WellFormedHeader(vcall.header)) =>
        /\ vresult.exc = None
        /\ ~vresult.value
        /\ ~vresult.hmac

\* C3: handle_github_webhook answers 401 "Invalid webhook signature" to every
\* request whose signature does not verify against the raw body, whatever the
\* event type and whether or not the body is JSON.
C3_UnverifiedSignatureAnswered401 ==
    (receiver = "fastapi" /\ response.code # 0 /\ ~SignatureVerifies(request)) =>
        /\ response.code = 401
        /\ response.detail = "Invalid webhook signature"

\* C4: a delivery rejected for an invalid signature changes no state: the step
\* that answers 401 enqueues no background task and appends no audit entry, and
\* in lambda_handler it writes no idempotency record, S3 object or queue message
\* (nor does the rejected invocation write any later).
C4_RejectedDeliveryChangesNothing ==
    [][ /\ (HandleGithubWebhook /\ response'.code = 401) =>
               UNCHANGED << background_tasks, audit_log >>
        /\ \A i \in Invocations :
               inv'[i].resp.statusCode = 401 =>
                   /\ inv[i].resp.statusCode # 401 => UNCHANGED << table, s3_objects, queue >>
                   /\ ~inv'[i].stored /\ ~inv'[i].sent /\ inv'[i].put_item = "none" ]_vars

C4_Witness ==
    /\ response.code = 401
    /\ ~SignatureVerifies(request)
    /\ Len(background_tasks) = 1

\* C5: in lambda_handler, when a delivery id was accepted by one invocation and a
\* second, validly signed invocation with the same id reads the idempotency
\* table successfully and finds the record, the second is answered 200
\* "duplicate" and writes nothing to S3, the queue or the table.
C5_SecondDeliveryIsDuplicate ==
    \A i, j \in Invocations :
        ( /\ i # j
          /\ inv[i].pc = "done" /\ inv[i].resp = LambdaResponse(200, "accepted")
          /\ inv[j].event.delivery = inv[i].event.delivery
          /\ inv[j].get_item = "item" ) =>
            /\ inv[j].pc = "done"
            /\ inv[j].resp = LambdaResponse(200, "duplicate")
            /\ ~inv[j].stored /\ ~inv[j].sent /\ inv[j].put_item = "none"

C5_Witness ==
    \E i, j \in Invocations :
        /\ i # j
        /\ inv[i].resp = LambdaResponse(200, "accepted")
        /\ inv[j].event.delivery = inv[i].event.delivery
        /\ inv[j].resp = LambdaResponse(200, "duplicate")

\* C6: for every interleaving of two lambda_handler invocations with the same
\* delivery id, both validly signed and with no DynamoDB call failing, at most
\* one of them stores the event to S3 and sends a queue message.
C6_SideEffectsNotRepeated ==
    \A i, j \in Invocations :
        ( /\ i # j
          /\ inv[i].event.delivery = inv[j].event.delivery
          /\ inv[i].get_item \in { "item", "no_item" }
          /\ inv[j].get_item \in { "item", "no_item" }
          /\ inv[i].put_item \notin DynamoFailures
          /\ inv[j].put_item \notin DynamoFailures ) =>
            /\ ~(inv[i].stored /\ inv[j].stored)
            /\ ~(inv[i].sent /\ inv[j].sent)

\* C7: whenever the read of the idempotency store fails, the delivery is treated
\* as not a duplicate and lambda_handler goes on to store and queue the event and
\* returns 200 "accepted"; a store failure never makes request handling crash.
\* (Stated for JSON bodies; a crash on an S3 or SQS error is not held against it.)
C7_ReadFailureFailsOpen ==
    \A i \in Invocations :
        (inv[i].get_item \in DynamoFailures /\ inv[i].event.body.json) =>
            /\ inv[i].pc = "crashed" => inv[i].error \notin DynamoFailures
            /\ inv[i].pc = "done" =>
                    /\ inv[i].resp = LambdaResponse(200, "accepted")
                    /\ inv[i].stored /\ inv[i].sent

\* C8: whenever the write of the idempotency record fails, lambda_handler still
\* returns 200 "accepted", and the S3 object and the queue message remain.
C8_RecordFailureStillAccepted ==
    \A i \in Invocations :
        inv[i].put_item \in DynamoFailures =>
            /\ inv[i].pc = "done"
            /\ inv[i].resp = LambdaResponse(200, "accepted")
            /\ inv[i].event.delivery \in s3_objects
            /\ queue[inv[i].event.delivery] >= 1

C10_PushDispatch ==
    [][ ( /\ HandleGithubWebhook
          /\ request'.event = "push"
          /\ SignatureVerifies(request')
          /\ ValidPushPayload(request'.body) ) =>
            /\ background_tasks' = background_tasks
            /\ IF StartsWith(request'.body.ref, RefsHeads)
               THEN /\ response'.status = "accepted"
                    /\ "branch" \in DOMAIN response'
                    /\ response'.commits = Len(request'.body.commits)
               ELSE /\ response'.status = "ignored"
                    /\ response'.message = << "Ref '", request'.body.ref, "' is not a branch" >> ]_vars

C10_Witness ==
    /\ request.event = "push"
    /\ request.body.shape = "push"
    /\ request.body.ref = RefTag
    /\ response.code = 200
    /\ response.status = "ignored"

\* C11: for every accepted branch push with ref refs/heads/<name>, the branch
\* field of the response is <name>, the whole ref without the refs/heads/
\* prefix, also when <name> itself contains "/".
C11_BranchIsRefWithoutPrefix ==
    ( /\ receiver = "fastapi"
      /\ request.event = "push"
      /\ response.code = 200
      /\ "branch" \in DOMAIN response ) =>
        response.branch = DropPrefix(request.body.ref, Len(RefsHeads))

\* the body validates against the schema of the declared event type
ValidForEvent(req) ==
    \/ req.event = "pull_request" /\ ValidPullRequestPayload(req.body)
    \/ req.event = "push" /\ ValidPushPayload(req.body)

IsSha(s) == Len(s) = ShaLen /\ Range(s) \subseteq HexDigits

\* every SHA field of the document is a SHA
ShasWellFormed(doc) ==
    IF doc.shape = "pull_request"
    THEN IsSha(doc.head_sha) /\ IsSha(doc.base_sha)
    ELSE /\ IsSha(doc.before) /\ IsSha(doc.after)
         /\ \A i \in 1..Len(doc.commits) : IsSha(doc.commits[i])

\* C13: every payload in which a pull request head or base SHA, a push before
\* or after SHA, or a commit id is not exactly 40 hexadecimal characters is
\* rejected by validation with HTTP 400, 40-character strings with non-hex
\* characters included.
C13_MalformedShaRejected ==
    ( /\ receiver = "fastapi"
      /\ request.event \in { "pull_request", "push" }
      /\ SignatureVerifies(request)
      /\ request.body.json
      /\ ~ShasWellFormed(request.body) ) =>
        response.code = 400

\* C14: every inbound webhook that passes signature verification in
\* handle_github_webhook results in exactly one audit entry carrying its
\* delivery_id and event_type, whether or not the event is actionable.
C14_VerifiedWebhookAuditedOnce ==
    [][ ( /\ HandleGithubWebhook
          /\ request'.event \in { "pull_request", "push" }
          /\ SignatureVerifies(request') ) =>
            /\ Len(audit_log') = Len(audit_log) + 1
            /\ audit_log'[Len(audit_log')].delivery_id = request'.delivery
            /\ audit_log'[Len(audit_log')].event_type = request'.event ]_vars

\* C15: for any sequence of N log_webhook_request calls made on the same UTC
\* day with auditing enabled and no call meeting a failure, read_audit_logs()
\* for that day returns exactly N entries, in call order, the i-th having the
\* delivery_id, event_type and payload of the i-th call.
C15_ReadReturnsTheDaysCalls ==
    ( /\ op.name = "read_audit_logs"
      /\ op.date = today
      /\ enabled
      /\ day_clean ) =>
        /\ Len(op.entries) = Len(day_calls)
        /\ \A i \in 1..Len(day_calls) :
              /\ op.entries[i].delivery_id = day_calls[i].delivery_id
              /\ op.entries[i].event_type = day_calls[i].event_type
              /\ op.entries[i].payload = day_calls[i].payload

C15_Witness ==
    /\ op.name = "read_audit_logs"
    /\ op.date = today
    /\ enabled
    /\ day_clean
    /\ Len(day_calls) = 2
    /\ Len(op.entries) = 2
    /\ op.entries[1].delivery_id # op.entries[2].delivery_id

\* C16: cleanup_old_logs deletes exactly the daily files webhooks-<date>.jsonl
\* whose date is strictly earlier than today minus retention_days (those of
\* them it can unlink); it keeps, unchanged, every file dated on or after that
\* cutoff, the cutoff day included, and every file whose name does not parse as
\* a date; and it returns the number of files it actually removed.
C16_CleanupDeletesExactlyTheOldFiles ==
    [][ (CleanupOldLogs /\ enabled) =>
          LET cutoff == today - retention_days
              gone == DOMAIN files \ DOMAIN files'
          IN  /\ DOMAIN files' \subseteq DOMAIN files
              /\ \A n \in DOMAIN files :
                    n \in gone <=> ( /\ n.stem = "date"
                                     /\ n.day < cutoff
                                     /\ ~files[n].locked )
              /\ \A n \in DOMAIN files' : files'[n] = files[n]
              /\ op'.count = Cardinality(gone) ]_vars

\* a cleanup that removed a file and kept the file of the cutoff day, a newer
\* one, one named without a date and one it could not unlink
C16_Witness ==
    /\ op.name = "cleanup_old_logs"
    /\ enabled
    /\ op.count = 1
    /\ LogFileName(today - retention_days - 1) \in DOMAIN op.before \ DOMAIN files
    /\ LogFileName(today - retention_days) \in DOMAIN files
    /\ OtherFileName \in DOMAIN files
    /\ \E n \in DOMAIN files : files[n].locked /\ n.day < today - retention_days

\* C17: calling cleanup_old_logs twice in a row, with no file created in between
\* and the date unchanged, leaves the directory after the second call as it was
\* after the first, and the second call returns 0.
C17_SecondCleanupDeletesNothing ==
    (op.name = "cleanup_old_logs" /\ op.repeat) =>
        /\ files = op.before
        /\ op.count = 0

C17_Witness ==
    /\ op.name = "cleanup_old_logs"
    /\ op.repeat
    /\ enabled
    /\ op.first_count > 0
    /\ op.count = 0
    /\ \E n \in DOMAIN files : files[n].locked /\ n.day < today - retention_days

\* C18: when auditing is disabled every WebhookAuditor operation is a no-op:
\* log_webhook_request writes nothing, read_audit_logs returns the empty list,
\* cleanup_old_logs returns 0 and deletes nothing, and neither construction nor
\* any call creates the audit directory or a file.
C18_DisabledAuditorDoesNothing ==
    [][ (~enabled /\ (Construct \/ LogWebhookRequest \/ ReadAuditLogs
                        \/ CleanupOldLogs \/ GetAllLogFiles)) =>
          /\ files' = files
          /\ dir_exists' = dir_exists
          /\ op'.exc = None
          /\ op'.entries = << >>
          /\ op'.count = 0
          /\ op'.listing = << >> ]_vars

\* a disabled auditor asked to clean a directory that holds old files
C18_Witness ==
    /\ ~enabled
    /\ op.name = "cleanup_old_logs"
    /\ op.count = 0
    /\ LogFileName(0) \in DOMAIN files
    /\ ~files[LogFileName(0)].locked
    /\ LogFileName(0).day < today - retention_days

\* C19: log_webhook_request never propagates a failure to its caller: whatever
\* error occurs while building the entry or opening and writing the day's
\* file, the call returns normally, and files of other days are left unchanged.
C19_LoggingFailureIsContained ==
    [][ LogWebhookRequest =>
          /\ op'.exc = None
          /\ DOMAIN files' \subseteq DOMAIN files \cup { LogFileName(today) }
          /\ \A n \in DOMAIN files :
                n # LogFileName(today) => (n \in DOMAIN files' /\ files'[n] = files[n]) ]_vars

\* a write that failed midway, in a directory that holds files of other days
C19_Witness ==
    /\ op.name = "log_webhook_request"
    /\ enabled
    /\ op.met = "OSError_write"
    /\ op.exc = None
    /\ LogFileName(today) \in DOMAIN files
    /\ files[LogFileName(today)].torn
    /\ LogFileName(today - 1) \in DOMAIN files

\* the entries of the well-formed lines, in file order
RECURSIVE WellFormedEntries(_)
WellFormedEntries(lines) ==
    IF lines = << >> THEN << >>
    ELSE IF Head(lines).kind = "json"
    THEN << Head(lines).doc >> \o WellFormedEntries(Tail(lines))
    ELSE WellFormedEntries(Tail(lines))

\* C20: read_audit_logs(date) returns, in file order, every well-formed entry of
\* that day's file and skips only the malformed lines, so well-formed entries
\* that follow a malformed line are still returned; it returns the empty list
\* when no file exists for that day.
C20_ReadSkipsOnlyMalformedLines ==
    (op.name = "read_audit_logs" /\ enabled) =>
        IF LogFileName(op.date) \in DOMAIN files
        THEN op.entries = WellFormedEntries(files[LogFileName(op.date)].lines)
        ELSE op.entries = << >>

\* C21: run_pr_analysis never raises: whatever analyze_pull_request does
\* (returns a report, returns a failed report, throws), the background task
\* ends normally after logging, and the analysis is invoked at most once per
\* enqueued task: the task is taken off the list when it starts and is never
\* put back.
C21_RunPrAnalysisNeverRaises ==
    [][ /\ RunPrAnalysis =>
              /\ analysis'.state = "ended"
              /\ analysis'.exc = None
              /\ analysis'.calls = 1
              /\ analysis_log' \in { "analysis_completed", "analysis_failed" }
              /\ background_tasks' = background_tasks
        /\ StartPrAnalysis =>
              /\ background_tasks' = Tail(background_tasks)
              /\ analysis'.calls = 1 ]_vars

C21_Witness ==
    /\ analysis.state = "ended"
    /\ analysis.pipeline = "raises"
    /\ analysis.exc = None
    /\ analysis_log = "analysis_failed"
    /\ background_tasks = << >>

\* the request is a validly signed, valid pull_request with an actionable action
ActionablePullRequest(req) ==
    /\ req.event = "pull_request"
    /\ SignatureVerifies(req)
    /\ ValidPullRequestPayload(req.body)
    /\ req.body.action \in { "opened", "synchronize" }

\* C22: for an actionable pull_request delivery handle_github_webhook produces
\* its "processing" response without waiting for run_pr_analysis (the task is
\* still on the list, not started, when the response exists), and the response
\* stays the same whether the analysis later succeeds, fails or never finishes.
C22_ResponseDoesNotWaitForAnalysis ==
    [][ /\ (HandleGithubWebhook /\ ActionablePullRequest(request')) =>
              /\ response'.code = 200
              /\ response'.status = "processing"
              /\ Len(background_tasks') = Len(background_tasks) + 1
              /\ background_tasks'[Len(background_tasks')].delivery_id = request'.delivery
              /\ analysis' = analysis
              /\ analysis_log' = analysis_log
        /\ (StartPrAnalysis \/ RunPrAnalysis) => response' = response ]_vars

\* the response of a delivery whose analysis never finishes
C22_Witness ==
    /\ ActionablePullRequest(request)
    /\ response.code = 200
    /\ response.status = "processing"
    /\ analysis.state = "running"
    /\ analysis.pipeline = "hangs"
    /\ analysis.delivery_id = request.delivery

\* the delivery id was submitted before: it is the last request's, or a task
\* of it is pending, or its task is the one that ran last
SubmittedBefore(delivery_id) ==
    \/ request.delivery = delivery_id
    \/ \E k \in 1..Len(background_tasks) : background_tasks[k].delivery_id = delivery_id
    \/ analysis.delivery_id = delivery_id

\* C23: handle_github_webhook applies no replay protection: when the same
\* validly signed actionable pull_request delivery is submitted again, the
\* submission is answered 200 "processing" like the first and enqueues its own
\* analysis task.
C23_ReplayIsProcessedAgain ==
    [][ ( /\ HandleGithubWebhook
          /\ ActionablePullRequest(request')
          /\ SubmittedBefore(request'.delivery) ) =>
            /\ response'.code = 200
            /\ response'.status = "processing"
            /\ response'.delivery_id = request'.delivery
            /\ background_tasks' = Append(background_tasks,
                   [ fn |-> "run_pr_analysis", payload |-> request'.body,
                     delivery_id |-> request'.delivery ]) ]_vars

\* the same delivery submitted twice: two equal tasks wait
C23_Witness ==
    /\ ActionablePullRequest(request)
    /\ response.code = 200
    /\ response.status = "processing"
    /\ Len(background_tasks) >= 2
    /\ background_tasks[1] = background_tasks[2]
    /\ background_tasks[2].delivery_id = request.delivery

\* C24: in every run of lambda_handler the steps of one delivery are strictly
\* ordered: the duplicate check (get_item) has run only if the signature is
\* the HMAC of the body; the S3 write has happened, or is next, only if the
\* duplicate check answered not-duplicate and the body is JSON; the queue send
\* only after the S3 write; the idempotency record only after the queue send.
C24_LambdaStepsAreOrdered ==
    \A i \in Invocations :
        LET s == inv[i]
            not_duplicate == s.get_item \in { "no_item", "ClientError" }
        IN  /\ (s.get_item # "none" \/ s.pc = "check") =>
                    /\ s.event # NoRequest
                    /\ s.event.signature = sign(s.event.body, secret)
            /\ s.get_item # "none" => s.pc # "check"
            /\ (s.stored \/ s.pc = "store") =>
                    /\ not_duplicate
                    /\ s.event.body.json
            /\ s.stored => s.event.delivery \in s3_objects
            /\ (s.sent \/ s.pc = "send") => s.stored
            /\ s.sent => queue[s.event.delivery] > 0
            /\ (s.put_item # "none" \/ s.pc = "record") => s.sent
            /\ s.resp.status = "accepted" => s.put_item \in { "ok", "ClientError" }

\* an invocation went through all four steps
C24_Witness ==
    \E i \in Invocations :
        /\ inv[i].pc = "done"
        /\ inv[i].resp = LambdaResponse(200, "accepted")
        /\ inv[i].get_item = "no_item"
        /\ inv[i].stored /\ inv[i].sent
        /\ inv[i].put_item = "ok"
        /\ inv[i].event.delivery \in table

\* C28: an idempotency record for delivery id D is written only by an
\* invocation for D that has stored the S3 object and sent the queue message;
\* a step of an invocation that is before record_delivery (the signature
\* check, the duplicate check with JSON parsing, the S3 write, the queue send,
\* failing or not) adds no record, and while D has no record the duplicate
\* check of a redelivery of D can only answer not-duplicate or fail.
C28_RecordOnlyAfterStoreAndSend ==
    [][ /\ \A d \in table' \ table :
              \E i \in Invocations :
                  /\ inv[i].pc = "record"
                  /\ inv[i].event.delivery = d
                  /\ inv[i].stored /\ inv[i].sent
                  /\ d \in s3_objects /\ queue[d] > 0
                  /\ inv'[i].put_item = "ok"
        /\ \A i \in Invocations :
              (inv[i].pc \in { "idle", "check", "store", "send" } /\ inv'[i] # inv[i])
                  => table' \subseteq table
        /\ \A i \in Invocations :
              (inv[i].pc = "check" /\ inv[i].event.delivery \notin table)
                  => "item" \notin GetItemOutcomes(inv[i].event.delivery) ]_vars

\* an invocation for D ended with a failing S3 write or queue send, and a
\* redelivery of D to another invocation went through and wrote the record
C28_Witness ==
    \E i, j \in Invocations :
        /\ inv[i].pc = "crashed"
        /\ inv[i].error \in { "S3Error", "SQSError" }
        /\ inv[j].event # NoRequest
        /\ inv[j].event.delivery = inv[i].event.delivery
        /\ inv[j].get_item = "no_item"
        /\ inv[j].put_item = "ok"
        /\ inv[j].event.delivery \in table

\* C30: verify_github_signature returns a boolean for every header string,
\* also for one that begins with "sha256=" and goes on with a value of the
\* wrong length or with non-hex or non-ASCII characters: it never raises; so
\* handle_github_webhook answers every pull_request or push request whose
\* header begins with "sha256=" and does not verify with 401, never with a
\* server error.
C30_VerifyAlwaysReturnsBoolean ==
    /\ vresult # Pending =>
            /\ vresult.exc = None
            /\ vresult.value \in BOOLEAN
    /\ ( /\ receiver = "fastapi"
         /\ response.code # 0
         /\ request.event \in { "pull_request", "push" }
         /\ StartsWith(request.signature, Prefix)
         /\ ~SignatureVerifies(request) ) =>
            /\ response.code = 401
            /\ response.code # ServerError.code

\* C26: while the background analysis of one delivery is running, a request
\* for a different delivery can be received and answered: the call into the
\* agent pipeline inside run_pr_analysis does not block unrelated requests.
C26_AnalysisDoesNotBlockRequests ==
    ( /\ receiver = "fastapi"
      /\ analysis.state = "running"
      /\ Len(background_tasks) < MaxTasks ) =>
        ENABLED ( /\ HandleGithubWebhook
                  /\ request'.delivery # analysis.delivery_id
                  /\ response'.code # 0 )

\* C27: every dispatched background analysis eventually ends: a pipeline that
\* does not finish within agent_timeout is abandoned by run_pr_analysis and
\* logged as a failure.
C27_EveryAnalysisEnds ==
    (analysis.state = "running") ~> (analysis.state = "ended" /\ analysis_log # None)

C29_AnalysisOnlyForActionablePullRequests ==
    /\ trigger.did # "none" =>
           (trigger.message.event_type # "pull_request" <=> trigger.did = "skipped")
    /\ \A t \in 1..Len(ecs_tasks) :
           LET task == ecs_tasks[t]
               message == task.MESSAGE_BODY
           IN  /\ message.event_type = "pull_request"
               /\ (task.s3_read \/ task.analyze_called \/ task.pc \in { "get_event", "analyze" })
                      => message.action \in { "opened", "synchronize" }
               /\ task.analyze_called => task.s3_read

\* a record of another event type was skipped, a task for a closed pull
\* request ended without reading S3, and a task for an opened one read S3 and
\* reached the analysis call
C29_Witness ==
    /\ trigger.did = "skipped"
    /\ \E t, u \in 1..Len(ecs_tasks) :
          /\ ecs_tasks[t].MESSAGE_BODY.action = "closed"
          /\ ecs_tasks[t].pc = "complete"
          /\ ecs_tasks[t].log = "skipping_action"
          /\ ~ecs_tasks[t].s3_read
          /\ ecs_tasks[u].MESSAGE_BODY.action = "opened"
          /\ ecs_tasks[u].s3_read
          /\ ecs_tasks[u].analyze_called

=============================================================================
